---- MODULE Spec2Model ----
(***************************************************************************)
(* Model of generate_breakpad_symbols.py: the dependency closure of main,  *)
(* GenerateSymbols and the text parsing of the external tools' output.     *)
(* Strings are sequences of one-character strings, so that the regular     *)
(* expressions, split, basename, dirname and join are computed character   *)
(* by character as Python computes them.                                   *)
(***************************************************************************)
EXTENDS Integers, Sequences, FiniteSets, TLC

\* ------------------------------------------------------------------------
\* Bounds of the model
\* ------------------------------------------------------------------------
NumPaths == 3
MaxRoots == 2

\* ------------------------------------------------------------------------
\* Character classes and string helpers
\* ------------------------------------------------------------------------
Digits == {"0", "1", "2", "3", "4", "5", "6", "7", "8", "9"}

\* the class [0-9A-F] of the MODULE regular expression
HexUpper == Digits \cup {"A", "B", "C", "D", "E", "F"}

Letters ==
  {"a", "b", "c", "d", "e", "f", "g", "h", "i", "j", "k", "l", "m",
   "n", "o", "p", "q", "r", "s", "t", "u", "v", "w", "x", "y", "z",
   "A", "B", "C", "D", "E", "F", "G", "H", "I", "J", "K", "L", "M",
   "N", "O", "P", "Q", "R", "S", "T", "U", "V", "W", "X", "Y", "Z"}

\* the class [\w.] of the SONAME regular expression
SoNameChars == Letters \cup Digits \cup {"_", "."}

\* the characters str.rstrip() removes
Whitespace == {" ", "\n", "\t", "\r"}

Nil == <<"<None>">>

StartsWithAt(s, i, lit) ==
  /\ i >= 1
  /\ i + Len(lit) - 1 <= Len(s)
  /\ \A k \in 1..Len(lit) : s[i + k - 1] = lit[k]

StartsWith(s, lit) == StartsWithAt(s, 1, lit)

\* first index >= from whose character is in cs; Len(s) + 1 when there is none
RECURSIVE FindIn(_, _, _)
FindIn(s, cs, from) ==
  IF from > Len(s) THEN Len(s) + 1
  ELSE IF s[from] \in cs THEN from
  ELSE FindIn(s, cs, from + 1)

\* first index >= from whose character is NOT in cs; Len(s) + 1 when none
RECURSIVE FindNotIn(_, _, _)
FindNotIn(s, cs, from) ==
  IF from > Len(s) THEN Len(s) + 1
  ELSE IF s[from] \notin cs THEN from
  ELSE FindNotIn(s, cs, from + 1)

\* last index whose character is c; 0 when there is none
RECURSIVE RFind(_, _, _)
RFind(s, c, i) ==
  IF i = 0 THEN 0
  ELSE IF s[i] = c THEN i
  ELSE RFind(s, c, i - 1)

\* last index <= i at which lit starts in s; 0 when there is none
RECURSIVE RFindLit(_, _, _)
RFindLit(s, lit, i) ==
  IF i < 1 THEN 0
  ELSE IF StartsWithAt(s, i, lit) THEN i
  ELSE RFindLit(s, lit, i - 1)

Slice(s, a, b) == IF a > b THEN <<>> ELSE SubSeq(s, a, b)

\* str.rstrip(cs)
RECURSIVE RStrip(_, _)
RStrip(s, cs) ==
  IF s = <<>> THEN s
  ELSE IF s[Len(s)] \in cs THEN RStrip(SubSeq(s, 1, Len(s) - 1), cs)
  ELSE s

\* str.split(c): the fields between the occurrences of c, empty ones kept
RECURSIVE Split(_, _)
Split(s, c) ==
  LET i == FindIn(s, {c}, 1)
  IN  IF i > Len(s) THEN <<s>>
      ELSE <<Slice(s, 1, i - 1)>> \o Split(Slice(s, i + 1, Len(s)), c)

\* str.splitlines() for "\n": no empty last line after a final newline
RECURSIVE SplitLines(_)
SplitLines(s) ==
  IF s = <<>> THEN <<>>
  ELSE LET i == FindIn(s, {"\n"}, 1)
       IN  IF i > Len(s) THEN <<s>>
           ELSE <<Slice(s, 1, i - 1)>> \o SplitLines(Slice(s, i + 1, Len(s)))

\* os.path.basename
Basename(p) == Slice(p, RFind(p, "/", Len(p)) + 1, Len(p))

\* os.path.dirname
Dirname(p) ==
  LET head == Slice(p, 1, RFind(p, "/", Len(p)))
  IN  IF head # <<>> /\ \E k \in 1..Len(head) : head[k] # "/"
      THEN RStrip(head, {"/"})
      ELSE head

\* os.path.join(a, b)
Join2(a, b) ==
  IF StartsWith(b, <<"/">>) THEN b
  ELSE IF a = <<>> \/ a[Len(a)] = "/" THEN a \o b
  ELSE a \o <<"/">> \o b

Join3(a, b, c) == Join2(Join2(a, b), c)

\* ------------------------------------------------------------------------
\* Literals of the source
\* ------------------------------------------------------------------------
\* a string literal as its sequence of characters
Str(s) == <<>> \o [i \in 1..Len(s) |-> SubSeq(s, i, i)]

LINUX == Str("linux")

\* 'MODULE ' at the head of the regular expression of line 97
MODULE_SP == Str("MODULE ")

\* '(SONAME)' in the regular expression of line 70
SONAME_TAG == Str("(SONAME)")

\* 'Library soname: [' in the regular expression of line 70
LIB_SONAME == Str("Library soname: [")

DOT_SYM == Str(".sym")

\* ' => ' and ' (' in the regular expression of line 43
ARROW == Str(" => ")

PAREN == Str(" (")

DUMP_SYMS == Str("dump_syms")

OPT_V == Str("-v")

OPT_N == Str("-n")

\* the default of --symbols-dir
DEFAULT_SYMBOLS_DIR == Str("./symbols")

\* ------------------------------------------------------------------------
\* Parsing of the tools' output
\* ------------------------------------------------------------------------

\* re.match('^MODULE [^ ]+ [^ ]+ ([0-9A-F]+) (.*)\n', syms): [^ ] also takes
\* a newline, '.' does not.  The match is unique: every field ends at the
\* next space, the name at the next newline.
ModuleLine(syms) ==
  LET a1 == Len(MODULE_SP) + 1
      s1 == FindIn(syms, {" "}, a1)
      a2 == s1 + 1
      s2 == FindIn(syms, {" "}, a2)
      a3 == s2 + 1
      s3 == FindNotIn(syms, HexUpper, a3)
      a4 == s3 + 1
      nl == FindIn(syms, {"\n"}, a4)
  IN  IF /\ StartsWith(syms, MODULE_SP)
         /\ s1 <= Len(syms) /\ s1 > a1
         /\ s2 <= Len(syms) /\ s2 > a2
         /\ s3 <= Len(syms) /\ s3 > a3 /\ syms[s3] = " "
         /\ nl <= Len(syms)
      THEN [matched |-> TRUE,
            group1  |-> Slice(syms, a3, s3 - 1),
            group2  |-> Slice(syms, a4, nl - 1)]
      ELSE [matched |-> FALSE, group1 |-> <<>>, group2 |-> <<>>]

\* lib_re.match(line) for r'^\t.* => (.+) \(.*\)$': both '.*' and '.+' are
\* greedy, so the group ends at the last ' (' of a line that ends in ')' and
\* starts after the last ' => ' that leaves it a character.  Nil on no match.
LibReMatch(line) ==
  LET j == RFindLit(line, PAREN, Len(line) - 2)
      i == RFindLit(line, ARROW, j - 5)
  IN  IF /\ Len(line) >= 2 /\ line[1] = "\t" /\ line[Len(line)] = ")"
         /\ j > 0 /\ i >= 2
      THEN Slice(line, i + 4, j - 1)
      ELSE Nil

\* the loop of lines 45-48 over the lines of ldd's output
RECURSIVE LibPaths(_)
LibPaths(lines) ==
  IF lines = <<>> THEN <<>>
  ELSE LET m == LibReMatch(Head(lines))
       IN  (IF m # Nil THEN <<m>> ELSE <<>>) \o LibPaths(Tail(lines))

\* GetSharedLibraryDependencies once ldd has printed ldd
GetSharedLibraryDependencies(ldd) == LibPaths(SplitLines(ldd))

\* the rest of so_re once '(SONAME)' is taken at index i of the line:
\* ' *Library soname: \[([\w.]+)\]'.  The index after the name, 0 on no match.
SoReAt(line, i) ==
  LET j == FindNotIn(line, {" "}, i + Len(SONAME_TAG))
      k == j + Len(LIB_SONAME)
      e == FindNotIn(line, SoNameChars, k)
  IN  IF /\ StartsWithAt(line, i, SONAME_TAG)
         /\ StartsWithAt(line, j, LIB_SONAME)
         /\ e > k /\ e <= Len(line) /\ line[e] = "]"
      THEN e
      ELSE 0

\* the last index <= i at which the rest of so_re matches; 0 when none
RECURSIVE LastSoHit(_, _)
LastSoHit(line, i) ==
  IF i < 1 THEN 0
  ELSE IF line[i] = "(" /\ SoReAt(line, i) # 0 THEN i
  ELSE LastSoHit(line, i - 1)

\* so_re.match(line): '.*' is greedy, the last '(SONAME)' that matches wins
SoReMatch(line) ==
  LET i == LastSoHit(line, Len(line))
      j == FindNotIn(line, {" "}, i + Len(SONAME_TAG))
  IN  IF i = 0 THEN Nil
      ELSE Slice(line, j + Len(LIB_SONAME), SoReAt(line, i) - 1)

\* the loop of lines 71-75 over the lines of readelf's output
RECURSIVE FirstSoName(_, _)
FirstSoName(lines, binary) ==
  IF lines = <<>> THEN Basename(binary)
  ELSE LET m == SoReMatch(Head(lines))
       IN  IF m # Nil THEN m ELSE FirstSoName(Tail(lines), binary)

\* GetSoName once readelf has printed out
GetSoName(out, binary) == FirstSoName(SplitLines(out), binary)

\* unstrip = GetCommandOutput(...).rstrip().split(' ')
UnstripFields(out) == Split(RStrip(out, Whitespace), " ")

\* unstrip[3] raises IndexError on fewer than four fields
UnstripRaises(out) == Len(UnstripFields(out)) < 4

\* GetDebugFile with '.' no longer taken for "no debug file"
GetDebugFile_DashOnly(out) ==
  LET dbg_file == UnstripFields(out)[4]
  IN  IF dbg_file # <<"-">> THEN dbg_file ELSE Nil

\* GetDebugFile once eu-unstrip has printed out (at least four fields)
GetDebugFile(out) ==
  LET dbg_file == UnstripFields(out)[4]
  IN  IF dbg_file \notin {<<"-">>, <<".">>} THEN dbg_file ELSE Nil

\* ------------------------------------------------------------------------
\* The file system
\* ------------------------------------------------------------------------

\* the proper ancestors of a path: its prefixes that end before a '/'
Ancestors(p) ==
  {Slice(p, 1, i - 1) : i \in {k \in 2..Len(p) : p[k] = "/" /\ p[k - 1] # "/"}}

\* directories that exist without having been made: cwd and the root
BaseDirs == {<<>>, <<".">>, <<"/">>}

\* p is dir or lies below it
Under(p, dir) == p = dir \/ StartsWith(p, dir \o <<"/">>)

\* debug files present on the disk
Disk == {Str("/g/a.debug"), Str("a.debug")}

\* ------------------------------------------------------------------------
\* The environment: paths, command lines, what the tools print
\* ------------------------------------------------------------------------
PathList == <<Str("/a"), Str("/b"), Str("/d/a"), Str("/c")>>

Paths == {PathList[i] : i \in 1..NumPaths}

RootLists == UNION {[1..n -> Paths] : n \in 1..MaxRoots}

Platforms == {Str("linux"), Str("darwin")}

BUILD_ID == Str("4A0B")

NEEDED_LINE == Str(" 0x1 (NEEDED) Shared library: [libc.so]\n")

SONAME_X == Str(" 0xe (SONAME)   Library soname: [libx.so]\n")

SONAME_Y == Str(" 0xe (SONAME) Library soname: [liby.so]\n")

SONAME_PLUS == Str(" 0xe (SONAME) Library soname: [libstdc++.so.6]\n")

\* readelf -d: the dynamic section, with or without a SONAME entry
ReadelfOutputs ==
  [none   |-> NEEDED_LINE,
   soname |-> NEEDED_LINE \o SONAME_X,
   two    |-> SONAME_Y \o SONAME_X,
   plus   |-> NEEDED_LINE \o SONAME_PLUS]

ReadelfOutput(kind) == ReadelfOutputs[kind]

\* eu-unstrip -n -e: START+SIZE BUILDID FILE DEBUGFILE MODULENAME
UnstripOutputs ==
  [dash  |-> Str("0+9 4a0b@2 . - a\n"),
   dot   |-> Str("0+9 4a0b@2 . . a\n"),
   found |-> Str("0+9 4a0b@2 . /g/a.debug a\n"),
   rel   |-> Str("0+9 4a0b@2 . a.debug a\n"),
   stale |-> Str("0+9 4a0b@2 . /g/gone.debug a\n"),
   short |-> Str("0+9 4a0b@2\n")]

UnstripOutput(kind) == UnstripOutputs[kind]

\* the module name dump_syms prints: the -n argument, else the file's name
DumpName(cmd) ==
  IF Len(cmd) >= 4 /\ cmd[3] = OPT_N THEN cmd[4]
  ELSE Basename(cmd[3])

MODULE_HEAD == Str("MODULE Linux x86_64 ")

MODULE_LOWER == Str("MODULE Linux x86_64 4a0b ")

MODULE_CROSS == Str("MODULE Linux\nINFO x86_64 ")

SLASH_NAME == Str("/x")

FUNC_LINES == Str("\nFUNC 0 1 0 f\n")

\* dump_syms -v [-n NAME] BINARY [DEBUGDIR]
DumpSymsOutput(kind, cmd) ==
  CASE kind = "good"  -> MODULE_HEAD \o BUILD_ID \o <<" ">> \o DumpName(cmd)
                         \o FUNC_LINES
    [] kind = "empty" -> <<>>
    [] kind = "lower" -> MODULE_LOWER \o DumpName(cmd) \o FUNC_LINES
    [] kind = "cross" -> MODULE_CROSS \o BUILD_ID \o <<" ">> \o DumpName(cmd)
                         \o FUNC_LINES
    [] kind = "slash" -> MODULE_HEAD \o BUILD_ID \o <<" ">> \o SLASH_NAME
                         \o FUNC_LINES

LDD_VDSO == Str("\tlinux-vdso.so.1 (0x7f)\n")

LDD_ADDR == Str(" (0x7e)\n")

\* ldd: the vdso line, then one 'NAME => PATH (ADDR)' line per dependency
RECURSIVE LddLines(_, _)
LddLines(ds, i) ==
  IF i > Len(PathList) THEN <<>>
  ELSE (IF PathList[i] \in ds
        THEN <<"\t">> \o Basename(PathList[i]) \o ARROW \o PathList[i]
             \o LDD_ADDR
        ELSE <<>>) \o LddLines(ds, i + 1)

LddOutput(ds) == LDD_VDSO \o LddLines(ds, 1)

\* the outputs the tools of a host may print and the tools that may exit
\* non-zero on it, one family per tool under study
PlainTools ==
  [readelf |-> {"none"}, unstrip |-> {"dash"}, dump_syms |-> {"good"},
   failing |-> {"ldd"}]

ReadelfTools ==
  [readelf |-> {"none", "soname", "two", "plus"},
   unstrip |-> {"dash"}, dump_syms |-> {"good"},
   failing |-> {"ldd", "readelf", "eu-unstrip", "dump_syms"}]

UnstripTools ==
  [readelf |-> {"none", "soname"},
   unstrip |-> {"dash", "dot", "found", "rel", "stale", "short"},
   dump_syms |-> {"good"},
   failing |-> {"ldd", "readelf", "eu-unstrip", "dump_syms"}]

DumpTools ==
  [readelf |-> {"none", "soname"}, unstrip |-> {"dash"},
   dump_syms |-> {"good", "empty", "lower", "cross", "slash"},
   failing |-> {"ldd", "readelf", "eu-unstrip", "dump_syms"}]

\* files found below the symbols directory before the run
STALE_SYM == Str("./symbols/stale/00/stale.sym")

OLD_SYM == Str("./symbols/a/4A0B/a.sym")

OldFiles == [p \in {STALE_SYM, OLD_SYM} |-> Str("old")]

NoFiles == [p \in {} |-> <<>>]

\* ------------------------------------------------------------------------
\* State
\* ------------------------------------------------------------------------
VARIABLES
  platform,     \* sys.platform
  argv,         \* the command line as the user gave it
  deps,         \* the dependencies ldd lists for each path
  toolbox,      \* what the tools of this host may print, which may fail
  files0,       \* the files on disk before the run
  files,        \* the files on disk: path -> content
  dirs,         \* the directories on disk
  pc,           \* where main is
  ret,          \* what main returned: <<>> before it returns
  args,         \* the parsed arguments; args.binaries is the list queue names
  binaries,     \* the set binaries of main
  pending,      \* what the for loop of line 129 has still to visit
  binary,       \* the argument and the locals of the last GenerateSymbols call
  soname,
  out,
  unstrip,
  dbg_file,
  dump_cmd,
  syms,
  made,         \* the directories the last GenerateSymbols call asked for
  wrote,        \* the files the last GenerateSymbols call wrote
  written,      \* the files the run wrote
  gen_done,     \* the paths for which GenerateSymbols returned
  trace         \* the tools run and the GenerateSymbols calls made, in order

env == <<platform, argv, deps, toolbox, files0>>

fs == <<files, dirs>>

locals == <<binary, soname, out, unstrip, dbg_file, dump_cmd, syms, made, wrote>>

vars == <<env, fs, pc, ret, args, binaries, pending, locals, written,
          gen_done, trace>>

\* queue = args.binaries (line 123): one list under two names
queue == args.binaries

\* the directories a set of files lies in
DirsOf(fls) == UNION {Ancestors(p) : p \in DOMAIN fls} \ BaseDirs

\* the run before main is entered
Start ==
  /\ platform \in Platforms
  /\ files = files0
  /\ dirs = DirsOf(files0)
  /\ pc = "main"
  /\ ret = <<>>
  /\ args = [parsed |-> FALSE, symbols_dir |-> <<>>, clear |-> FALSE,
             binaries |-> <<>>]
  /\ binaries = {}
  /\ pending = {}
  /\ binary = Nil /\ soname = Nil /\ out = Nil /\ unstrip = Nil
  /\ dbg_file = Nil /\ dump_cmd = <<>> /\ syms = Nil /\ made = {}
  /\ wrote = {}
  /\ written = {}
  /\ gen_done = {}
  /\ trace = <<>>

\* every dependency graph and every list of roots, on a host where only
\* ldd can fail and the other tools print one well-formed output
InitGraphs ==
  /\ toolbox = PlainTools
  /\ deps \in [Paths -> SUBSET Paths]
  /\ files0 = NoFiles
  /\ \E roots \in RootLists :
       argv = [symbols_dir |-> DEFAULT_SYMBOLS_DIR, clear |-> FALSE,
               binaries |-> roots]

\* every output and failure of the tools, every option, with or without old
\* symbol files, for binaries without dependencies
InitTools ==
  /\ toolbox \in {ReadelfTools, UnstripTools, DumpTools}
  /\ deps = [p \in Paths |-> {}]
  /\ files0 \in {NoFiles, OldFiles}
  /\ \E roots \in RootLists, clear \in BOOLEAN :
       argv = [symbols_dir |-> DEFAULT_SYMBOLS_DIR, clear |-> clear,
               binaries |-> roots]

Init == (InitGraphs \/ InitTools) /\ Start

\* ------------------------------------------------------------------------
\* Operations
\* ------------------------------------------------------------------------
Range(f) == {f[i] : i \in DOMAIN f}

\* list(S): the elements of a set in the order the interpreter yields them
Orders(S) == {f \in [1..Cardinality(S) -> S] : Range(f) = S}

Event(op, arg, exit) == [op |-> op, arg |-> arg, exit |-> exit]

\* subprocess.run without check=True: a non-zero exit status goes unnoticed
GetCommandOutput_Unchecked(tool, outputs) ==
  (IF tool \in toolbox.failing
   THEN {[exit |-> "nonzero", raised |-> FALSE, stdout |-> <<>>]}
   ELSE {})
  \cup {[exit |-> "zero", raised |-> FALSE, stdout |-> o] : o \in outputs}

\* subprocess.run(command, check=True) for the tool named tool: the call
\* raises on a non-zero exit status, else its stdout is returned; outputs is
\* what the tool may print for this command
GetCommandOutput(tool, outputs) ==
  (IF tool \in toolbox.failing
   THEN {[exit |-> "nonzero", raised |-> TRUE, stdout |-> <<>>]}
   ELSE {})
  \cup {[exit |-> "zero", raised |-> FALSE, stdout |-> o] : o \in outputs}

\* new_deps = set(deps) - binaries
NewDeps(ds, seen) == Range(ds) \ seen

\* the loop body without queue.extend: new dependencies are never visited
Extended_Dropped(q, l) == Tail(q)

\* queue.extend(list(new_deps)) after queue.pop(0)
Extended(q, l) == Tail(q) \o l

\* an rmtree that leaves the files in place
RmTreeFiles_Keep(dir) == files

\* shutil.rmtree(dir, ignore_errors=True) on the files
RmTreeFiles(dir) ==
  [p \in {q \in DOMAIN files : ~Under(q, dir)} |-> files[p]]

\* shutil.rmtree(dir, ignore_errors=True) on the directories
RmTreeDirs(dir) == {d \in dirs : ~Under(d, dir)}

\* os.path.exists
Exists(p) == p \in Disk \cup DOMAIN files \cup dirs \cup BaseDirs

\* os.makedirs(path, exist_ok=True) raises when a file is in the way
MakeDirsRaises(path) == (Ancestors(path) \cup {path}) \cap DOMAIN files # {}

MakeDirs(path) == dirs \cup ((Ancestors(path) \cup {path}) \ BaseDirs)

\* open(path, 'w') raises when the directory is missing or path is one
OpenRaises(path, ds) == Dirname(path) \notin ds \cup BaseDirs \/ path \in ds

\* f.write(text) into the file opened at path
WriteFile(path, text) ==
  [p \in DOMAIN files \cup {path} |-> IF p = path THEN text ELSE files[p]]

\* an exception leaves main: nothing after the raising statement runs
Raise == pc' = "raised" /\ UNCHANGED ret

\* lines 79-88: the dump_syms command once the SONAME is known
DumpCmd(so, b) ==
  <<DUMP_SYMS, OPT_V>> \o (IF so # Basename(b) THEN <<OPT_N, so>> ELSE <<>>)
  \o <<b>>

\* lines 91-94: the debug directory is appended when the debug file exists
WithDebugDir(cmd, dbg) ==
  IF dbg # Nil /\ Exists(dbg) THEN cmd \o <<Dirname(dbg)>> ELSE cmd

\* lines 96-104 once dump_syms has printed text: the MODULE line, the
\* directory and the file.  With no MODULE line, module_line is None and
\* line 99 or line 100 raises.  (A quantifier over a one-element set names a
\* value that is computed once.)
WriteSymbols(symbol_dir, b, text) ==
  \E module_line \in {ModuleLine(text)} :
  \E output_path \in {Join3(symbol_dir, module_line.group2,
                            module_line.group1)} :
  \E path \in {Join2(output_path, module_line.group2 \o DOT_SYM)} :
    /\ syms' = text
    /\ IF ~module_line.matched \/ MakeDirsRaises(output_path)
       THEN /\ Raise
            /\ made' = {} /\ wrote' = {}
            /\ UNCHANGED <<fs, written, gen_done>>
       ELSE IF OpenRaises(path, MakeDirs(output_path))
       THEN /\ Raise
            /\ dirs' = MakeDirs(output_path)
            /\ made' = {output_path} /\ wrote' = {}
            /\ UNCHANGED <<files, written, gen_done>>
       ELSE /\ dirs' = MakeDirs(output_path)
            /\ files' = WriteFile(path, text)
            /\ made' = {output_path} /\ wrote' = {path}
            /\ written' = written \cup {path}
            /\ gen_done' = gen_done \cup {b}
            /\ pc' = "for" /\ UNCHANGED ret

\* an exception in GenerateSymbols before dump_syms has printed
RaiseEarly ==
  /\ Raise
  /\ syms' = Nil /\ made' = {} /\ wrote' = {}
  /\ UNCHANGED <<fs, written, gen_done>>

\* lines 77-104: GenerateSymbols(symbol_dir, binary), from readelf to the
\* symbol file; an exception of any statement ends it and main
GenerateSymbols(symbol_dir, b) ==
  /\ binary' = b
  /\ \E r1 \in GetCommandOutput("readelf",
                                {ReadelfOutput(k) : k \in toolbox.readelf}) :
       IF r1.raised
       THEN /\ RaiseEarly
            /\ trace' = trace \o <<Event("GenerateSymbols", b, "call"),
                                   Event("readelf", b, r1.exit)>>
            /\ soname' = Nil /\ out' = Nil /\ unstrip' = Nil
            /\ dbg_file' = Nil /\ dump_cmd' = <<DUMP_SYMS, OPT_V>>
       ELSE
       \E so \in {GetSoName(r1.stdout, b)} :
       \E r2 \in GetCommandOutput("eu-unstrip",
                                  {UnstripOutput(k) : k \in toolbox.unstrip}) :
         /\ soname' = so /\ out' = r1.stdout
         /\ IF r2.raised \/ UnstripRaises(r2.stdout)
            THEN /\ RaiseEarly
                 /\ trace' = trace \o <<Event("GenerateSymbols", b, "call"),
                                        Event("readelf", b, r1.exit),
                                        Event("eu-unstrip", b, r2.exit)>>
                 /\ unstrip' = (IF r2.raised THEN Nil ELSE r2.stdout)
                 /\ dbg_file' = Nil /\ dump_cmd' = DumpCmd(so, b)
            ELSE
            \E dbg \in {GetDebugFile(r2.stdout)} :
            \E cmd \in {WithDebugDir(DumpCmd(so, b), dbg)} :
            \E r3 \in GetCommandOutput("dump_syms",
                                       {DumpSymsOutput(k, cmd) :
                                          k \in toolbox.dump_syms}) :
              /\ unstrip' = r2.stdout /\ dbg_file' = dbg /\ dump_cmd' = cmd
              /\ trace' = trace \o <<Event("GenerateSymbols", b, "call"),
                                     Event("readelf", b, r1.exit),
                                     Event("eu-unstrip", b, r2.exit),
                                     Event("dump_syms", b, r3.exit)>>
              /\ IF r3.raised
                 THEN RaiseEarly
                 ELSE WriteSymbols(symbol_dir, b, r3.stdout)

\* main without the platform test
main_Platform_NoCheck ==
  /\ pc = "main"
  /\ pc' = "parse_args"
  /\ UNCHANGED <<env, fs, ret, args, binaries, pending, locals, written,
                 gen_done, trace>>

\* lines 107-109: the platform test
main_Platform ==
  /\ pc = "main"
  /\ IF ~StartsWith(platform, LINUX)
     THEN pc' = "returned" /\ ret' = <<1>>
     ELSE pc' = "parse_args" /\ UNCHANGED ret
  /\ UNCHANGED <<env, fs, args, binaries, pending, locals, written, gen_done,
                 trace>>

\* lines 110-116: args = parser.parse_args()
main_ParseArgs ==
  /\ pc = "parse_args"
  /\ args' = [parsed |-> TRUE, symbols_dir |-> argv.symbols_dir,
              clear |-> argv.clear, binaries |-> argv.binaries]
  /\ pc' = "clear"
  /\ UNCHANGED <<env, fs, ret, binaries, pending, locals, written, gen_done,
                 trace>>

\* lines 118-123: the optional rmtree, then binaries and queue are set up
main_Clear ==
  /\ pc = "clear"
  /\ IF args.clear
     THEN /\ files' = RmTreeFiles(args.symbols_dir)
          /\ dirs' = RmTreeDirs(args.symbols_dir)
     ELSE UNCHANGED fs
  /\ binaries' = Range(args.binaries)
  /\ pc' = "while"
  /\ UNCHANGED <<env, ret, args, pending, locals, written, gen_done, trace>>

\* lines 124-128: the loop test and one pass of the loop body; queue.pop(0)
\* is evaluated before ldd runs
main_While ==
  /\ pc = "while"
  /\ IF queue = <<>>
     THEN /\ pc' = "for"
          /\ pending' = binaries
          /\ UNCHANGED <<ret, args, binaries, trace>>
     ELSE \E r \in GetCommandOutput("ldd", {LddOutput(deps[Head(queue)])}) :
            /\ trace' = Append(trace, Event("ldd", Head(queue), r.exit))
            /\ UNCHANGED pending
            /\ IF r.raised
               THEN /\ args' = [args EXCEPT !.binaries = Tail(@)]
                    /\ Raise
                    /\ UNCHANGED binaries
               ELSE \E new_deps \in
                         {NewDeps(GetSharedLibraryDependencies(r.stdout),
                                  binaries)} :
                      /\ binaries' = binaries \cup new_deps
                      /\ \E l \in Orders(new_deps) :
                           args' = [args EXCEPT !.binaries = Extended(@, l)]
                      /\ pc' = "while"
                      /\ UNCHANGED ret
  /\ UNCHANGED <<env, fs, locals, written, gen_done>>

\* lines 129-133: one pass of the for loop over the set, in the order the
\* interpreter yields its elements, or return 0 once the set is exhausted
main_For ==
  /\ pc = "for"
  /\ IF pending = {}
     THEN /\ pc' = "returned" /\ ret' = <<0>>
          /\ UNCHANGED <<pending, fs, locals, written, gen_done, trace>>
     ELSE \E b \in pending :
            /\ pending' = pending \ {b}
            /\ GenerateSymbols(args.symbols_dir, b)
  /\ UNCHANGED <<env, args, binaries>>

Next ==
  \/ main_Platform
  \/ main_ParseArgs
  \/ main_Clear
  \/ main_While
  \/ main_For

Spec == Init /\ [][Next]_vars

\* main up to the end of the worklist loop of lines 124-128
ClosureNext ==
  \/ main_Platform
  \/ main_ParseArgs
  \/ main_Clear
  \/ main_While

ClosureSpec == Init /\ [][ClosureNext]_vars /\ WF_vars(ClosureNext)

\* ------------------------------------------------------------------------
\* Claims
\* ------------------------------------------------------------------------
Linux == StartsWith(platform, LINUX)

Roots == Range(argv.binaries)

\* the paths reachable from S by zero or more dependency edges
RECURSIVE Reach(_)
Reach(S) ==
  LET T == S \cup UNION {deps[p] : p \in S}
  IN  IF T = S THEN S ELSE Reach(T)

\* how often op was run on (or called with) the path p
Count(op, p) ==
  Cardinality({i \in DOMAIN trace : trace[i].op = op /\ trace[i].arg = p})

\* C1: for every dependency graph, cycles and self-dependencies included,
\* and every non-empty list of roots, the worklist loop ends (unless ldd
\* fails) with an empty queue and with binaries equal to the roots together
\* with everything reachable from them, nothing more and nothing less.
C1_Closure ==
  /\ [](pc = "for" => queue = <<>> /\ binaries = Reach(Roots))
  /\ (pc = "while") ~> (pc = "for" \/ pc = "raised")

C1_Witness ==
  /\ pc = "for"
  /\ binaries \ (Roots \cup UNION {deps[r] : r \in Roots}) # {}
  /\ \E p \in binaries, q \in binaries : p # q /\ q \in deps[p] /\ p \in deps[q]

\* C2: in a run without tool failure, whatever the list of roots and however
\* often a path occurs in it, ldd and GenerateSymbols are each run exactly
\* once on every path of the closure.
C2_ExactlyOnce ==
  ret = <<0>> =>
    \A p \in binaries : Count("ldd", p) = 1 /\ Count("GenerateSymbols", p) = 1

\* the first line of text read as 'MODULE <os> <arch> <BUILD_ID> <NAME>'
HeaderLine(text) ==
  LET nl   == FindIn(text, {"\n"}, 1)
      line == Slice(text, 1, nl - 1)
      f    == Split(line, " ")
  IN  IF /\ nl <= Len(text)
         /\ Len(f) >= 5
         /\ f[1] = Str("MODULE")
         /\ f[2] # <<>> /\ f[3] # <<>> /\ f[4] # <<>>
         /\ \A k \in 1..Len(f[4]) : f[4][k] \in HexUpper
      THEN [ok |-> TRUE, id |-> f[4],
            name |-> Slice(line, Len(f[1]) + Len(f[2]) + Len(f[3]) + Len(f[4]) + 5,
                           Len(line))]
      ELSE [ok |-> FALSE, id |-> <<>>, name |-> <<>>]

\* a path with every run of '/' reduced to one
RECURSIVE NormPath(_)
NormPath(p) ==
  IF Len(p) < 2 THEN p
  ELSE IF p[1] = "/" /\ p[2] = "/" THEN NormPath(Tail(p))
  ELSE <<p[1]>> \o NormPath(Tail(p))

\* <symbol_dir>/<NAME>/<BUILD_ID>/<NAME>.sym
SymPath(dir, h) ==
  NormPath(dir \o <<"/">> \o h.name \o <<"/">> \o h.id \o <<"/">> \o h.name
           \o DOT_SYM)

\* C3: when the output of dump_syms begins with a line
\* 'MODULE <os> <arch> <BUILD_ID> <NAME>', GenerateSymbols writes exactly one
\* file, at <symbol_dir>/<NAME>/<BUILD_ID>/<NAME>.sym, holding the whole
\* output unchanged.
C3_SymbolFile ==
  (syms # Nil /\ HeaderLine(syms).ok) =>
    \E p \in wrote :
      /\ wrote = {p}
      /\ NormPath(p) = SymPath(args.symbols_dir, HeaderLine(syms))
      /\ files[p] = syms

\* C4: when an external tool exits non-zero the run aborts there: the
\* failing invocation is the last one, no directory is made and no file is
\* written after it, and main does not return 0.
C4_AbortOnFailure ==
  \A i \in DOMAIN trace :
    trace[i].exit = "nonzero" =>
      /\ i = Len(trace)
      /\ pc = "raised" /\ ret = <<>>
      /\ made = {} /\ wrote = {}

C4_Witness ==
  /\ trace # <<>>
  /\ trace[Len(trace)].op = "dump_syms"
  /\ trace[Len(trace)].exit = "nonzero"
  /\ written # {}

\* C5: with --clear the symbols directory is removed before any tool runs
\* and before any file is written, so that no file found below it before
\* the run survives and no file the run writes is removed; the removal never
\* raises.  Without --clear no file found before the run is deleted, and
\* only files at a path the run writes change.
C5_Clear ==
  /\ pc \in {"main", "parse_args", "clear"} =>
       trace = <<>> /\ written = {} /\ files = files0
  /\ (args.parsed /\ args.clear /\ pc # "clear") =>
       \A p \in DOMAIN files : Under(p, args.symbols_dir) => p \in written
  /\ written \subseteq DOMAIN files
  /\ (args.parsed /\ ~args.clear) =>
       \A p \in DOMAIN files0 :
         p \in DOMAIN files /\ (p \notin written => files[p] = files0[p])
  /\ pc = "raised" => trace # <<>>

C5_Witness ==
  /\ args.clear
  /\ pc = "returned"
  /\ STALE_SYM \in DOMAIN files0 /\ STALE_SYM \notin DOMAIN files
  /\ OLD_SYM \in written

\* the name X of a line '... (SONAME) ... Library soname: [X]', else Nil
SoLineName(line) ==
  LET tags == {i \in 1..Len(line) : StartsWithAt(line, i, SONAME_TAG)}
      i    == CHOOSE x \in tags : \A y \in tags : x <= y
      lits == {j \in (i + Len(SONAME_TAG))..Len(line) :
                 StartsWithAt(line, j, LIB_SONAME)}
      j    == CHOOSE x \in lits : \A y \in lits : x <= y
      a    == j + Len(LIB_SONAME)
      e    == FindIn(line, {"]"}, a)
  IN  IF tags = {} THEN Nil
      ELSE IF lits = {} THEN Nil
      ELSE IF e > Len(line) \/ e = a THEN Nil
      ELSE Slice(line, a, e - 1)

\* the name of the first such line of a dump, the file's name when none
RECURSIVE ClaimedSoName(_, _)
ClaimedSoName(lines, b) ==
  IF lines = <<>> THEN Basename(b)
  ELSE IF SoLineName(Head(lines)) # Nil THEN SoLineName(Head(lines))
  ELSE ClaimedSoName(Tail(lines), b)

\* C6: GetSoName returns X whenever the dump of the dynamic section holds a
\* line '... (SONAME) ... Library soname: [X]', for every library name X
\* (the first such line wins), and the base name of the path otherwise.
C6_SoName ==
  out # Nil => soname = ClaimedSoName(SplitLines(out), binary)

\* dump_syms was the last tool run, for the current binary
DumpSymsRan == trace # <<>> /\ trace[Len(trace)].op = "dump_syms"

\* the arguments of dump_syms after the binary
DebugArgs ==
  IF dump_cmd[3] = OPT_N THEN Slice(dump_cmd, 6, Len(dump_cmd))
  ELSE Slice(dump_cmd, 4, Len(dump_cmd))

\* C7: dump_syms gets a debug directory argument if and only if the fourth
\* space-separated field of eu-unstrip's output is neither '-' nor '.' and
\* names a file that exists; the argument is the directory that holds the
\* file, not the file.
C7_DebugHint ==
  DumpSymsRan =>
    LET field == UnstripFields(unstrip)[4]
    IN  /\ Len(DebugArgs) <= 1
        /\ DebugArgs # <<>> <=>
             (field \notin {<<"-">>, <<".">>} /\ Exists(field))
        /\ DebugArgs # <<>> =>
             /\ DebugArgs[1] # field
             /\ Join2(DebugArgs[1], Basename(field)) = field

C7_Witness ==
  /\ DumpSymsRan
  /\ DebugArgs = <<Str("/g")>>
  /\ soname # Basename(binary)

\* C8: on a platform whose name does not start with 'linux', main returns 1
\* and has run no tool, parsed no argument, deleted and written nothing; on
\* Linux it returns 0 only after GenerateSymbols has completed for every
\* binary of the closure.
C8_Platform ==
  /\ ~Linux =>
       /\ pc \in {"main", "returned"}
       /\ pc = "returned" => ret = <<1>>
       /\ trace = <<>> /\ ~args.parsed /\ written = {}
       /\ files = files0 /\ dirs = DirsOf(files0)
  /\ (Linux /\ ret = <<0>>) => Reach(Roots) \subseteq gen_done

C8_Witness ==
  /\ ~Linux
  /\ pc = "returned"
  /\ argv.clear /\ files0 # NoFiles

\* C9: when the output of dump_syms does not begin with a line
\* 'MODULE <os> <arch> <BUILD_ID_HEX> <MODULE_NAME>', GenerateSymbols fails
\* before it makes a directory or writes a file, and main does not go on.
C9_NoHeaderFails ==
  (syms # Nil /\ ~HeaderLine(syms).ok) =>
    pc = "raised" /\ made = {} /\ wrote = {}

\* C10: the traversal works on a copy: the list of roots of the caller,
\* args.binaries, keeps the paths the user gave, in their order.
C10_RootsKept == args.parsed => args.binaries = argv.binaries

====
